---- MODULE Spec2Model ----
(***************************************************************************)
(* The finance dashboard server (the Express routes in front of the       *)
(* upstream data providers, sharing one node-cache) as a state machine.   *)
(*                                                                         *)
(* A route handler runs in two atomic steps, split at its only await of   *)
(* the network: Start (cache key, cache.get, and on a miss axios.get is   *)
(* issued) and Deliver (the upstream outcome arrives, cache.set, the      *)
(* route's post-processing, res.json).  Time is in seconds.               *)
(*                                                                         *)
(* Numbers are decimal fixed point, in thousandths (Milli); the           *)
(* JavaScript doubles of the code are not modelled bit for bit.           *)
(*                                                                         *)
(* The browser client (public/script.js) is a second state machine over   *)
(* its globals stockData and isLoading: an async function runs from its   *)
(* call to its await of makeRequest in one step, and from the settling of *)
(* that request to its end in another.                                    *)
(***************************************************************************)
EXTENDS Integers, Sequences, FiniteSets, TLC

VARIABLES
    cache,             \* the NodeCache: key -> [v: stored value, t: expiry, at: time of the set]
    now,               \* Date.now(), in seconds
    EXCHANGE_API_KEY,  \* process.env.EXCHANGE_API_KEY || '' (fixed at start)
    pc,                \* per request slot: "idle", "awaiting" (axios.get pending), "done"
    req,               \* per request slot: the route and its req.params
    got,               \* per request slot: the upstream outcome delivered to it
    calls,             \* per request slot: upstream calls issued by the current invocation
    sent,              \* per request slot: the responses written by the current invocation
    escaped,           \* per request slot: an exception left the route handler
    nreq,              \* requests started so far
    stockData,         \* client: the tracked stocks, a JavaScript array (holes included)
    isLoading,         \* client: the flag set by showLoading, cleared by hideLoading
    tasks,             \* client: the async functions waiting at their await of a request
    nops               \* client: user and timer events so far

server == <<cache, now, EXCHANGE_API_KEY, pc, req, got, calls, sent, escaped, nreq>>
client == <<stockData, isLoading, tasks, nops>>
vars == <<cache, now, EXCHANGE_API_KEY, pc, req, got, calls, sent, escaped, nreq,
          stockData, isLoading, tasks, nops>>

---------------------------------------------------------------------------
(* Bounds of the model *)

MaxRequests == 2
MaxTicks == 2
MaxClientOps == 2
Procs == {1, 2}

---------------------------------------------------------------------------
(* JavaScript values.  A string is a sequence of tokens; the tokens of a   *)
(* request parameter are its characters.                                   *)

Undef == [ty |-> "undefined"]
Null == [ty |-> "null"]
NaN == [ty |-> "number", nan |-> TRUE]
Num(m) == [ty |-> "number", m |-> m]
Str(s) == [ty |-> "string", s |-> s]
Bool(b) == [ty |-> "boolean", b |-> b]
Iso(t) == [ty |-> "string", iso |-> t]
Arr(a) == [ty |-> "array", a |-> a]
Obj(f) == [ty |-> "object", f |-> f]
NoFields == [x \in {} |-> Undef]

IsNaN(x) == x.ty = "number" /\ "nan" \in DOMAIN x

\* ToBoolean, as used by `if (x)`, `x && y`, `x || y`
Truthy(x) ==
    CASE x.ty \in {"undefined", "null"} -> FALSE
      [] x.ty = "boolean" -> x.b
      [] x.ty = "number" -> ~IsNaN(x) /\ x.m # 0
      [] x.ty = "string" -> IF "s" \in DOMAIN x THEN Len(x.s) > 0 ELSE TRUE
      [] OTHER -> TRUE

\* x[name] throws a TypeError exactly when x is null or undefined
CanRead(x) == x.ty \notin {"undefined", "null"}

\* a property name is a string: P("data") is the name written `data` in the code
P(name) == <<name>>

Get(x, name) ==
    IF x.ty = "object" /\ name \in DOMAIN x.f THEN x.f[name] ELSE Undef

\* Object.keys(x).length
NumKeys(x) == IF x.ty = "object" THEN Cardinality(DOMAIN x.f) ELSE 0

UpperChar(c) ==
    CASE c = "a" -> "A" [] c = "d" -> "D" [] c = "e" -> "E" [] c = "g" -> "G"
      [] c = "p" -> "P" [] c = "r" -> "R" [] c = "s" -> "S" [] c = "u" -> "U"
      [] c = "l" -> "L" [] c = "t" -> "T"
      [] OTHER -> c

toUpperCase(s) == [i \in DOMAIN s |-> UpperChar(s[i])]

DigitVal(c) ==
    CASE c = "0" -> 0 [] c = "1" -> 1 [] c = "2" -> 2 [] c = "3" -> 3
      [] c = "4" -> 4 [] c = "5" -> 5 [] c = "6" -> 6 [] c = "7" -> 7
      [] c = "8" -> 8 [] c = "9" -> 9 [] OTHER -> -1

RECURSIVE DigitsValue(_)
DigitsValue(s) ==
    IF Len(s) = 0 THEN 0
    ELSE 10 * DigitsValue(SubSeq(s, 1, Len(s) - 1)) + DigitVal(s[Len(s)])

RECURSIVE DigitPrefix(_)
DigitPrefix(s) ==
    IF Len(s) = 0 \/ DigitVal(s[1]) < 0 THEN <<>>
    ELSE <<s[1]>> \o DigitPrefix(Tail(s))

Milli == 1000

\* parseFloat of a string of characters: its leading digits, NaN without any
parseFloat(s) ==
    IF Len(DigitPrefix(s)) = 0 THEN NaN
    ELSE Num(Milli * DigitsValue(DigitPrefix(s)))

\* a * b on numbers
Times(a, b) ==
    IF a.ty # "number" \/ b.ty # "number" \/ IsNaN(a) \/ IsNaN(b) THEN NaN
    ELSE Num((a.m * b.m) \div Milli)

\* parseFloat(x.toFixed(2)): x rounded to hundredths, half up
Fixed2(x) ==
    IF IsNaN(x) THEN NaN ELSE Num(((x.m + 5) \div 10) * 10)

---------------------------------------------------------------------------
(* The cache: new NodeCache({ stdTTL: 300 }) *)

stdTTL == 300

HasKey(c, k) == k \in DOMAIN c

\* (mutant) entries never expire
CacheGetForever(c, k, t) == IF HasKey(c, k) THEN c[k].v ELSE Undef

\* cache.get(key): the stored value unless its expiry time has passed
CacheGet(c, k, t) ==
    IF HasKey(c, k) /\ ~(c[k].t < t) THEN c[k].v ELSE Undef

\* cache.set(key, value): overwrites, expiry counted from the time of the set
CacheSet(c, k, v, t) ==
    [x \in DOMAIN c \cup {k} |->
        IF x = k THEN [v |-> v, t |-> t + stdTTL, at |-> t] ELSE c[x]]

\* (mutant) a hit restarts the entry's time to live
CacheGetStoreSliding(c, k, t) ==
    IF Truthy(CacheGet(c, k, t)) THEN CacheSet(c, k, c[k].v, t) ELSE c

\* the store after cache.get(k): a lookup rewrites no entry and no expiry (an
\* expired entry stays hidden behind CacheGet until the next set of its key)
CacheGetStore(c, k, t) == c

---------------------------------------------------------------------------
(* Request parameters the clients send *)

usd == <<"u", "s", "d">>
USD == <<"U", "S", "D">>
EUR == <<"E", "U", "R">>
aa == <<"a", "a">>
AA == <<"A", "A">>
gdp == <<"g", "d", "p">>
REAL_GDP == <<"R", "E", "A", "L", "_", "G", "D", "P">>
btc == <<"b", "t", "c">>

Requests ==
    [route : {"exchange"}, base : {Undef, Str(usd)}]
    \cup [route : {"stock"}, symbol : {Str(aa), Str(AA)}]
    \cup [route : {"crypto"}, ids : {Undef, Str(btc)}]
    \cup [route : {"economic"}, indicator : {Str(gdp), Str(REAL_GDP)}]
    \cup {r \in [route : {"convert"}, from : {Str(usd), Str(USD)}, to : {Str(USD), Str(EUR)},
                  amount : {Str(<<"7">>), Str(<<"3">>), Str(<<"x">>)}] :
            r.to.s = EUR \/ r.from = r.to}

\* one or two requests of every route
Sample ==
    {r \in Requests :
        \/ r.route = "exchange"
        \/ r.route = "stock" /\ r.symbol.s = aa
        \/ r.route = "crypto" /\ r.ids = Undef
        \/ r.route = "economic" /\ r.indicator.s = gdp
        \/ r.route = "convert" /\ r.amount.s = <<"7">> /\ (r.from.s = usd \/ r.from = r.to)}

NoRequest == [route |-> "none"]

---------------------------------------------------------------------------
(* Cache keys and upstream URLs, per route *)

ALPHA_VANTAGE_API_KEY == "demo"

\* x || y
Or(x, y) == IF Truthy(x) THEN x ELSE y

baseCurrency(r) == Or(r.base, Str(USD))
cryptoIds(r) == Or(r.ids, Str(<<"bitcoin,ethereum,cardano,polkadot,chainlink">>))
\* (mutant) the symbol taken as it was sent
symbolAsSent(r) == r.symbol.s

symbol(r) == toUpperCase(r.symbol.s)
indicator(r) == toUpperCase(r.indicator.s)

indicatorMap ==
    (<<"G", "D", "P">> :> REAL_GDP)
    @@ (<<"INFLATION">> :> <<"INFLATION">>)
    @@ (<<"UNEMPLOYMENT">> :> <<"UNEMPLOYMENT">>)
    @@ (<<"INTEREST_RATE">> :> <<"FEDERAL_FUNDS_RATE">>)

functionName(r) ==
    IF indicator(r) \in DOMAIN indicatorMap THEN indicatorMap[indicator(r)]
    ELSE indicator(r)

\* (mutant) the conversion filed under its amount too
cacheKeyWithAmount(r) ==
    CASE r.route = "exchange" -> <<"exchange_">> \o baseCurrency(r).s
      [] r.route = "stock" -> <<"stock_">> \o symbol(r)
      [] r.route = "crypto" -> <<"crypto_">> \o cryptoIds(r).s
      [] r.route = "economic" -> <<"economic_">> \o indicator(r)
      [] r.route = "convert" ->
            <<"convert_">> \o r.from.s \o <<"_">> \o r.to.s \o <<"_">> \o r.amount.s

cacheKey(r) ==
    CASE r.route = "exchange" -> <<"exchange_">> \o baseCurrency(r).s
      [] r.route = "stock" -> <<"stock_">> \o symbol(r)
      [] r.route = "crypto" -> <<"crypto_">> \o cryptoIds(r).s
      [] r.route = "economic" -> <<"economic_">> \o indicator(r)
      [] r.route = "convert" -> <<"convert_">> \o r.from.s \o <<"_">> \o r.to.s

V6 == "https://v6.exchangerate-api.com/v6/"
V4Latest == "https://api.exchangerate-api.com/v4/latest/"
GlobalQuoteUrl == "https://www.alphavantage.co/query?function=GLOBAL_QUOTE&symbol="
FunctionUrl == "https://www.alphavantage.co/query?function="
CoinGeckoUrl == "https://api.coingecko.com/api/v3/simple/price?ids="

url(r, key) ==
    CASE r.route = "exchange" ->
            IF key # "" THEN <<V6, key, "/latest/">> \o baseCurrency(r).s
            ELSE <<V4Latest>> \o baseCurrency(r).s
      [] r.route = "stock" ->
            <<GlobalQuoteUrl>> \o symbol(r) \o <<"&apikey=", ALPHA_VANTAGE_API_KEY>>
      [] r.route = "crypto" ->
            <<CoinGeckoUrl>> \o cryptoIds(r).s
                \o <<"&vs_currencies=usd&include_24hr_change=true&include_market_cap=true">>
      [] r.route = "economic" ->
            <<FunctionUrl>> \o functionName(r) \o <<"&apikey=", ALPHA_VANTAGE_API_KEY>>
      [] r.route = "convert" ->
            IF key # "" THEN <<V6, key, "/pair/">> \o r.from.s \o <<"/">> \o r.to.s
            ELSE <<V4Latest>> \o r.from.s

---------------------------------------------------------------------------
(* What the providers can answer.  axios.get resolves with the parsed      *)
(* body of a 2xx answer and rejects on any other status, on a connection   *)
(* error and after the 10 s timeout.                                       *)

Quote(sym, price) ==
    Obj((P("01. symbol") :> Str(sym)) @@ (P("05. price") :> Str(<<price>>))
        @@ (P("09. change") :> Str(<<"1.2500">>))
        @@ (P("10. change percent") :> Str(<<"0.8400%">>))
        @@ (P("06. volume") :> Str(<<"48000000">>))
        @@ (P("07. latest trading day") :> Str(<<"2024-01-05">>)))

\* the answer of a provider that is rate limiting, or rejecting the query
Note == Obj(P("Note") :> Str(<<"API call frequency exceeded">>))

Series == Arr([i \in 1..12 |-> Num(i * Milli)])

RateTable(eur) ==
    Obj((P("base") :> Str(USD))
        @@ (P("rates") :> Obj((USD :> Num(Milli)) @@ (EUR :> Num(eur)))))

PaidTable(eur) ==
    Obj((P("result") :> Str(<<"success">>)) @@ (P("base_code") :> Str(USD))
        @@ (P("conversion_rates") :> Obj((USD :> Num(Milli)) @@ (EUR :> Num(eur)))))

Pair(rate) ==
    Obj((P("result") :> Str(<<"success">>)) @@ (P("conversion_rate") :> Num(rate)))

Prices(usdPrice) ==
    Obj(P("bitcoin") :> Obj(P("usd") :> Num(usdPrice)))

\* the bodies of a 2xx answer, by the endpoint the URL names
Bodies(u) ==
    CASE u[1] = GlobalQuoteUrl ->
            LET sym == SubSeq(u, 2, Len(u) - 2) IN
            {Null, Note, Obj(P("Global Quote") :> Obj(NoFields)),
             Obj(P("Global Quote") :> Quote(sym, "150.00")),
             Obj(P("Global Quote") :> Quote(sym, "151.00"))}
      [] u[1] = FunctionUrl ->
            {Null, Note, Obj((P("name") :> Str(<<"series">>)) @@ (P("data") :> Series))}
      [] u[1] = CoinGeckoUrl -> {Null, Obj(NoFields), Prices(40000 * Milli)}
      [] u[1] = V4Latest -> {Null, Note, RateTable(855), RateTable(900)}
      [] u[1] = V6 /\ u[3] = "/latest/" -> {Null, PaidTable(855), PaidTable(900)}
      [] u[1] = V6 /\ u[3] = "/pair/" -> {Null, Note, Pair(855), Pair(Milli)}

Ok(body) == [kind |-> "ok", data |-> body]
HttpError(status, body) ==
    [kind |-> "http", status |-> status, data |-> body,
     message |-> Str(<<"Request failed with status code">>)]
TransportError == [kind |-> "transport", message |-> Str(<<"timeout of 10000ms exceeded">>)]

Outcomes(u) ==
    {Ok(b) : b \in Bodies(u)}
    \cup {TransportError, HttpError(429, Obj(P("message") :> Str(<<"Too Many Requests">>)))}

NoOutcome == [kind |-> "none"]

---------------------------------------------------------------------------
(* makeAPIRequest *)

\* (mutant) a hit reported as a fresh fetch
makeAPIRequestHitAsFetched(cachedData) ==
    [success |-> TRUE, data |-> cachedData, cached |-> FALSE]

\* the return on a cache hit
makeAPIRequestHit(cachedData) ==
    [success |-> TRUE, data |-> cachedData, cached |-> TRUE]

\* the return after axios.get: on its success, or from the catch block
makeAPIRequestFetched(o) ==
    IF o.kind = "ok" THEN [success |-> TRUE, data |-> o.data, cached |-> FALSE]
    ELSE [success |-> FALSE,
          error |-> IF o.kind = "http"
                    THEN Or(Get(o.data, P("message")), Or(o.message, Str(<<"API request failed">>)))
                    ELSE Or(o.message, Str(<<"API request failed">>)),
          status |-> IF o.kind = "http" /\ o.status # 0 THEN o.status ELSE 500]

\* (mutant) an entry already there is kept
makeAPIRequestStoreFirstWins(c, k, o, t) ==
    IF o.kind = "ok" /\ ~HasKey(c, k) THEN CacheSet(c, k, o.data, t) ELSE c

\* the cache after axios.get: only a resolved call reaches cache.set
makeAPIRequestStore(c, k, o, t) ==
    IF o.kind = "ok" THEN CacheSet(c, k, o.data, t) ELSE c

---------------------------------------------------------------------------
(* The route handlers, from the return of makeAPIRequest to res.json *)

Json(status, body) == [status |-> status, body |-> body]
Thrown == [thrown |-> TRUE]
IsThrown(x) == "thrown" \in DOMAIN x

\* result.status || 500
StatusOr500(result) == IF result.status # 0 THEN result.status ELSE 500

Failure(result) ==
    Json(StatusOr500(result), [success |-> Bool(FALSE), error |-> result.error])

exchangeRatesTry(r, result, key, t) ==
    IF result.success
    THEN Json(200, [success |-> Bool(TRUE), data |-> result.data,
                    cached |-> Bool(result.cached), timestamp |-> Iso(t)])
    ELSE Json(StatusOr500(result),
              [success |-> Bool(FALSE), error |-> result.error,
               fallback |-> Str(<<"Exchange rate data temporarily unavailable">>)])

stockTry(r, result, key, t) ==
    IF result.success
    THEN IF ~CanRead(result.data) THEN Thrown
         ELSE LET quote == Get(result.data, P("Global Quote")) IN
              IF Truthy(quote) /\ NumKeys(quote) > 0
              THEN Json(200,
                     [success |-> Bool(TRUE),
                      data |-> Obj((P("symbol") :> Get(quote, P("01. symbol")))
                                @@ (P("price") :> Get(quote, P("05. price")))
                                @@ (P("change") :> Get(quote, P("09. change")))
                                @@ (P("changePercent") :> Get(quote, P("10. change percent")))
                                @@ (P("volume") :> Get(quote, P("06. volume")))
                                @@ (P("lastUpdate") :> Get(quote, P("07. latest trading day")))),
                      cached |-> Bool(result.cached), timestamp |-> Iso(t)])
              ELSE Json(404, [success |-> Bool(FALSE),
                              error |-> Str(<<"Stock symbol '">> \o symbol(r)
                                            \o <<"' not found or invalid">>)])
    ELSE Failure(result)

\* (mutant) the success envelope built without its cached flag
cryptoTryNoCached(r, result, key, t) ==
    IF result.success
    THEN Json(200, [success |-> Bool(TRUE), data |-> result.data, timestamp |-> Iso(t)])
    ELSE Failure(result)

cryptoTry(r, result, key, t) ==
    IF result.success
    THEN Json(200, [success |-> Bool(TRUE), data |-> result.data,
                    cached |-> Bool(result.cached), timestamp |-> Iso(t)])
    ELSE Failure(result)

\* x.slice(0, 10)
Slice10(x) == Arr(SubSeq(x.a, 1, IF Len(x.a) < 10 THEN Len(x.a) ELSE 10))

economicTry(r, result, key, t) ==
    IF result.success /\ ~CanRead(result.data) THEN Thrown
    ELSE IF result.success /\ Truthy(Get(result.data, P("data")))
    THEN Json(200, [success |-> Bool(TRUE), data |-> Slice10(Get(result.data, P("data"))),
                    cached |-> Bool(result.cached), timestamp |-> Iso(t)])
    ELSE Json(404, [success |-> Bool(FALSE),
                    error |-> Str(<<"Economic indicator '">> \o indicator(r)
                                  \o <<"' not found or unavailable">>)])

convertTry(r, result, key, t) ==
    IF result.success
    THEN IF ~CanRead(result.data) THEN Thrown
         ELSE IF key = "" /\ ~CanRead(Get(result.data, P("rates"))) THEN Thrown
         ELSE LET conversionRate ==
                      IF key # "" THEN Get(result.data, P("conversion_rate"))
                      ELSE Get(Get(result.data, P("rates")), r.to.s)
              IN
              IF Truthy(conversionRate)
              THEN Json(200,
                     [success |-> Bool(TRUE),
                      data |-> Obj((P("from") :> r.from) @@ (P("to") :> r.to)
                                @@ (P("amount") :> parseFloat(r.amount.s))
                                @@ (P("rate") :> conversionRate)
                                @@ (P("result") :>
                                      Fixed2(Times(parseFloat(r.amount.s), conversionRate)))),
                      cached |-> Bool(result.cached), timestamp |-> Iso(t)])
              ELSE Json(404, [success |-> Bool(FALSE),
                              error |-> Str(<<"Conversion rate from ">> \o r.from.s
                                            \o <<" to ">> \o r.to.s \o <<" not available">>)])
    ELSE Failure(result)

\* the catch block of a route handler
InternalError(r) ==
    Json(500, [success |-> Bool(FALSE), error |-> Str(<<"Internal server error">>),
               message |->
                  CASE r.route = "exchange" -> Str(<<"Unable to fetch exchange rates">>)
                    [] r.route = "stock" -> Str(<<"Unable to fetch stock data for ">> \o symbol(r))
                    [] r.route = "crypto" -> Str(<<"Unable to fetch cryptocurrency data">>)
                    [] r.route = "economic" ->
                          Str(<<"Unable to fetch economic data for ">> \o indicator(r))
                    [] r.route = "convert" ->
                          Str(<<"Unable to convert ">> \o r.from.s \o <<" to ">> \o r.to.s)])

\* (mutant) a handler without its catch block
Uncaught(r, out) == out

\* try { ... } catch (error) { res.status(500).json(...) }
TryCatch(r, out) == IF IsThrown(out) THEN InternalError(r) ELSE out

\* what the route handler of r does with the return of makeAPIRequest
Handle(r, result, key, t) ==
    TryCatch(r,
        CASE r.route = "exchange" -> exchangeRatesTry(r, result, key, t)
          [] r.route = "stock" -> stockTry(r, result, key, t)
          [] r.route = "crypto" -> cryptoTry(r, result, key, t)
          [] r.route = "economic" -> economicTry(r, result, key, t)
          [] r.route = "convert" -> convertTry(r, result, key, t))

---------------------------------------------------------------------------
(* The state machine *)

TickStep == (2 * stdTTL) \div 3

\* the client: symbols, array operations, requests

AAPL == <<"A", "A", "P", "L">>
GOOGL == <<"G", "O", "O", "G", "L">>
MSFT == <<"M", "S", "F", "T">>
defaultStocks == {AAPL, GOOGL, MSFT}

\* what the user may have typed in the symbol field
StockInputs == {<<>>, <<" ", "a", "a", "p", "l">>, <<"t">>}

RECURSIVE TrimStart(_)
TrimStart(s) == IF Len(s) > 0 /\ s[1] = " " THEN TrimStart(Tail(s)) ELSE s

RECURSIVE TrimEnd(_)
TrimEnd(s) == IF Len(s) > 0 /\ s[Len(s)] = " " THEN TrimEnd(SubSeq(s, 1, Len(s) - 1)) ELSE s

trim(s) == TrimEnd(TrimStart(s))

\* an index of the array that was never assigned
Hole == [hole |-> TRUE]
IsHole(e) == "hole" \in DOMAIN e

\* stockData.some(stock => stock.symbol === sym): a hole is skipped
Some(a, sym) == \E i \in DOMAIN a : ~IsHole(a[i]) /\ a[i].symbol = sym

\* stockData.filter(stock => stock.symbol !== sym): a new array, holes dropped
Filter(a, sym) == SelectSeq(a, LAMBDA e : ~IsHole(e) /\ e.symbol # sym)

\* stockData[index] = v, index counted from 0: the array grows to reach index
PutAt(a, index, v) ==
    [j \in 1..(IF index + 1 > Len(a) THEN index + 1 ELSE Len(a)) |->
        IF j = index + 1 THEN v ELSE IF j <= Len(a) THEN a[j] ELSE Hole]

\* data.data of an answer of /api/stock/sym
ClientPrices == {"150.00", "151.00"}
StockOf(sym, price) == [symbol |-> sym, price |-> price]

\* how makeRequest(`/api/stock/${sym}`) settles: with the envelope's data, or
\* throwing (network error, or success false)
Resolved(d) == [ok |-> TRUE, data |-> d]
Rejected == [ok |-> FALSE]
makeRequest(sym) == {Resolved(StockOf(sym, x)) : x \in ClientPrices} \cup {Rejected}

\* the async functions waiting for their request; id is the event that started them
DefaultLoad(sym) == [kind |-> "default", id |-> 0, symbol |-> sym]
AddLoad(n, sym) == [kind |-> "add", id |-> n, symbol |-> sym]
ConvertLoad(n) == [kind |-> "convert", id |-> n]
WidgetsLoad(n) == [kind |-> "widgets", id |-> n]
QuoteLoad(n, sym, index) == [kind |-> "quote", id |-> n, symbol |-> sym, index |-> index]

Init ==
    /\ cache = [k \in {} |-> Undef]
    /\ now = 0
    /\ EXCHANGE_API_KEY \in {"", "key"}
    /\ pc = [p \in Procs |-> "idle"]
    /\ req = [p \in Procs |-> NoRequest]
    /\ got = [p \in Procs |-> NoOutcome]
    /\ calls = [p \in Procs |-> 0]
    /\ sent = [p \in Procs |-> <<>>]
    /\ escaped = [p \in Procs |-> FALSE]
    /\ nreq = 0
    /\ stockData = <<>>
    /\ isLoading = FALSE
    /\ tasks = {DefaultLoad(sym) : sym \in defaultStocks}
    /\ nops = 0

\* if (cachedData)
CacheHit(cachedData) == Truthy(cachedData)

\* res.json(out), or the exception a handler lets through
Respond(p, out) ==
    /\ sent' = [sent EXCEPT ![p] = IF IsThrown(out) THEN <<>> ELSE <<out>>]
    /\ escaped' = [escaped EXCEPT ![p] = IsThrown(out)]

\* a request arrives: the handler runs up to the await of axios.get, and to
\* its end when the cache answers
Start(p, r) ==
    /\ pc[p] \in {"idle", "done"}
    /\ nreq < MaxRequests
    /\ nreq' = nreq + 1
    /\ req' = [req EXCEPT ![p] = r]
    /\ got' = [got EXCEPT ![p] = NoOutcome]
    /\ LET cachedData == CacheGet(cache, cacheKey(r), now) IN
       IF CacheHit(cachedData)
       THEN /\ pc' = [pc EXCEPT ![p] = "done"]
            /\ calls' = [calls EXCEPT ![p] = 0]
            /\ Respond(p, Handle(r, makeAPIRequestHit(cachedData), EXCHANGE_API_KEY, now))
       ELSE /\ pc' = [pc EXCEPT ![p] = "awaiting"]
            /\ calls' = [calls EXCEPT ![p] = 1]
            /\ sent' = [sent EXCEPT ![p] = <<>>]
            /\ escaped' = [escaped EXCEPT ![p] = FALSE]
    /\ cache' = CacheGetStore(cache, cacheKey(r), now)
    /\ UNCHANGED <<now, EXCHANGE_API_KEY>>
    /\ UNCHANGED client

\* axios.get settles with outcome o: the rest of makeAPIRequest and of the handler
Settle(p, o) ==
    /\ got' = [got EXCEPT ![p] = o]
    /\ cache' = makeAPIRequestStore(cache, cacheKey(req[p]), o, now)
    /\ pc' = [pc EXCEPT ![p] = "done"]
    /\ Respond(p, Handle(req[p], makeAPIRequestFetched(o), EXCHANGE_API_KEY, now))
    /\ UNCHANGED <<now, EXCHANGE_API_KEY, req, calls, nreq>>
    /\ UNCHANGED client

Deliver(p) ==
    /\ pc[p] = "awaiting"
    /\ \E o \in Outcomes(url(req[p], EXCHANGE_API_KEY)) : Settle(p, o)

\* time passes
Tick ==
    /\ now < MaxTicks * TickStep
    /\ now' = now + TickStep
    /\ UNCHANGED <<cache, EXCHANGE_API_KEY, pc, req, got, calls, sent, escaped, nreq>>
    /\ UNCHANGED client

\* the server with the request slots PS, asked the requests RS
NextOf(PS, RS) ==
    \/ \E p \in PS, r \in RS : Start(p, r)
    \/ \E p \in PS : Deliver(p)
    \/ Tick

Route(name) == {r \in Requests : r.route = name}

\* every route, one request after the other
Next == NextOf({1}, Sample)
Spec == Init /\ [][Next]_vars

\* the stock route, requests overlapping
NextStock == NextOf(Procs, Route("stock"))
SpecStock == Init /\ [][NextStock]_vars

\* the economic route, requests overlapping
NextEconomic == NextOf(Procs, Route("economic"))
SpecEconomic == Init /\ [][NextEconomic]_vars

\* the conversion from USD to EUR of 7 and of 3, requests overlapping
ConvertRequests ==
    {r \in Route("convert") :
        r.from.s = USD /\ r.to.s = EUR /\ r.amount.s \in {<<"7">>, <<"3">>}}
NextConvert == NextOf(Procs, ConvertRequests)
SpecConvert == Init /\ [][NextConvert]_vars

---------------------------------------------------------------------------
(* The browser client *)

showLoading == isLoading' = TRUE
hideLoading == isLoading' = FALSE

\* a click, a key press or the timer calls a handler
Event == nops < MaxClientOps /\ nops' = nops + 1

\* addStock up to its await; the two early returns change nothing
addStock(input) ==
    LET sym == toUpperCase(trim(input)) IN
    /\ Event
    /\ Len(sym) > 0
    /\ ~Some(stockData, sym)
    /\ showLoading
    /\ tasks' = tasks \cup {AddLoad(nops', sym)}
    /\ UNCHANGED stockData
    /\ UNCHANGED server

\* addStock after its await: push on success, hideLoading in finally
addStockSettled(k, o) ==
    /\ stockData' = IF o.ok THEN Append(stockData, o.data) ELSE stockData
    /\ hideLoading
    /\ tasks' = tasks \ {k}
    /\ UNCHANGED nops
    /\ UNCHANGED server

\* a default stock's request settles: push on success, isLoading untouched
defaultStockSettled(k, o) ==
    /\ stockData' = IF o.ok THEN Append(stockData, o.data) ELSE stockData
    /\ tasks' = tasks \ {k}
    /\ UNCHANGED <<isLoading, nops>>
    /\ UNCHANGED server

\* removeStock(sym), from the button of a listed stock
removeStock(sym) ==
    /\ Event
    /\ Some(stockData, sym)
    /\ stockData' = Filter(stockData, sym)
    /\ UNCHANGED <<isLoading, tasks>>
    /\ UNCHANGED server

\* convertCurrency up to its await; an invalid amount and from === to return early
convertCurrency(amount, from, to) ==
    /\ Event
    /\ amount > 0
    /\ from # to
    /\ showLoading
    /\ tasks' = tasks \cup {ConvertLoad(nops')}
    /\ UNCHANGED stockData
    /\ UNCHANGED server

\* convertCurrency after its await: hideLoading in finally, whatever the outcome
convertCurrencySettled(k) ==
    /\ hideLoading
    /\ tasks' = tasks \ {k}
    /\ UNCHANGED <<stockData, nops>>
    /\ UNCHANGED server

\* refreshAllData, from the button or from the timer, up to its first await
refreshAllData ==
    /\ Event
    /\ ~isLoading
    /\ showLoading
    /\ tasks' = tasks \cup {WidgetsLoad(nops')}
    /\ UNCHANGED stockData
    /\ UNCHANGED server

\* the three widget loads have settled: one request per listed stock is sent,
\* each with its symbol and its index; with none to send the run ends here
refreshStocks(k) ==
    LET stockPromises ==
            {QuoteLoad(k.id, stockData[i].symbol, i - 1) :
                i \in {j \in DOMAIN stockData : ~IsHole(stockData[j])}}
    IN
    /\ tasks' = (tasks \ {k}) \cup stockPromises
    /\ IF stockPromises = {} THEN hideLoading ELSE UNCHANGED isLoading
    /\ UNCHANGED <<stockData, nops>>
    /\ UNCHANGED server

\* a refresh's stock request settles: stockData[index] = data.data on success;
\* the last one of the run to settle lets the run reach hideLoading
refreshStockSettled(k, o) ==
    /\ stockData' = IF o.ok THEN PutAt(stockData, k.index, o.data) ELSE stockData
    /\ tasks' = tasks \ {k}
    /\ IF \E other \in tasks \ {k} : other.kind = "quote" /\ other.id = k.id
       THEN UNCHANGED isLoading
       ELSE hideLoading
    /\ UNCHANGED nops
    /\ UNCHANGED server

Listed == {stockData[i].symbol : i \in {j \in DOMAIN stockData : ~IsHole(stockData[j])}}

NextClient ==
    \/ \E input \in StockInputs : addStock(input)
    \/ \E k \in tasks : k.kind = "add" /\ \E o \in makeRequest(k.symbol) : addStockSettled(k, o)
    \/ \E k \in tasks :
          k.kind = "default" /\ \E o \in makeRequest(k.symbol) : defaultStockSettled(k, o)
    \/ \E sym \in Listed : removeStock(sym)
    \/ \E amount \in {0, 7}, from, to \in {USD, EUR} : convertCurrency(amount, from, to)
    \/ \E k \in tasks : k.kind = "convert" /\ convertCurrencySettled(k)
    \/ refreshAllData
    \/ \E k \in tasks : k.kind = "widgets" /\ refreshStocks(k)
    \/ \E k \in tasks :
          k.kind = "quote" /\ \E o \in makeRequest(k.symbol) : refreshStockSettled(k, o)

SpecClient == Init /\ [][NextClient]_vars

---------------------------------------------------------------------------
(* Reading the state *)

Replied(p) == pc[p] = "done" /\ Len(sent[p]) = 1
Envelope(p) == sent[p][1].body
Succeeded(p) == Replied(p) /\ Envelope(p).success = Bool(TRUE)
Failed(p) == Replied(p) /\ Envelope(p).success = Bool(FALSE)

\* slot p went to upstream, got a 2xx answer, and the entry it stored then is
\* the entry the cache holds for its key
StoredBy(p) ==
    /\ pc[p] = "done" /\ calls[p] = 1 /\ got[p].kind = "ok"
    /\ HasKey(cache, cacheKey(req[p]))
    /\ cache[cacheKey(req[p])].v = got[p].data
    /\ \E t \in 0..now : cache[cacheKey(req[p])] = [v |-> got[p].data, t |-> t + stdTTL, at |-> t]
                          /\ (Replied(p) /\ "timestamp" \in DOMAIN Envelope(p)
                                => Envelope(p).timestamp = Iso(t))

\* the entry of key k was stored less than the TTL ago
Fresh(k) == HasKey(cache, k) /\ now < cache[k].at + stdTTL

\* in this step slot p answers from the cache, with the data d, calling nobody
ServedFromCache(p, d) ==
    /\ pc'[p] = "done" /\ calls'[p] = 0 /\ Len(sent'[p]) = 1
    /\ sent'[p][1].body.success = Bool(TRUE)
    /\ sent'[p][1].body.cached = Bool(TRUE)
    /\ sent'[p][1].body.data = d

\* the quote object of a delivered body is empty or missing
NoQuote(body) ==
    body.ty = "object" /\ ~(Truthy(Get(body, P("Global Quote")))
                            /\ NumKeys(Get(body, P("Global Quote"))) > 0)

---------------------------------------------------------------------------
(* C1: if a first call succeeds and a second call with identical           *)
(* parameters is made before the TTL has elapsed (the entry the first call *)
(* stored still being the one in the cache), the second call answers       *)
(* cached=true with the first call's value and issues no upstream call.    *)
C1_SecondCallCached ==
    [][\A p, q \in Procs : \A r \in Requests :
          (Succeeded(q) /\ req[q] = r /\ StoredBy(q) /\ Fresh(cacheKey(r)) /\ Start(p, r))
            => ServedFromCache(p, Envelope(q).data)]_vars

(* C2: a stock request whose upstream answer is delivered with an empty or *)
(* missing quote object is answered success=false with 404, leaves no      *)
(* cache entry for its key, and an identical request made next calls       *)
(* upstream again.                                                         *)
C2_EmptyQuoteNotCached ==
    [][\A p \in Procs :
          /\ (pc[p] = "awaiting" /\ pc'[p] = "done" /\ req[p].route = "stock"
                /\ got'[p].kind = "ok" /\ NoQuote(got'[p].data))
              => /\ Len(sent'[p]) = 1
                 /\ sent'[p][1].status = 404
                 /\ sent'[p][1].body.success = Bool(FALSE)
                 /\ ~HasKey(cache', cacheKey(req[p]))
          /\ \A q \in Procs : \A r \in Requests :
                (Failed(q) /\ req[q] = r /\ r.route = "stock" /\ sent[q][1].status = 404
                    /\ Start(p, r))
                  => calls'[p] = 1]_vars

(* C3: a conversion with from equal to to answers success with rate 1 and  *)
(* result = amount, attempts no upstream call and neither creates nor      *)
(* reads a cache entry, whatever the cache holds and for both provider     *)
(* configurations.                                                         *)
C3_SameCurrencyShortCircuit ==
    [][\A p \in Procs : \A r \in Requests :
          (r.route = "convert" /\ r.from = r.to /\ Start(p, r))
            => /\ pc'[p] = "done" /\ calls'[p] = 0 /\ Len(sent'[p]) = 1
               /\ sent'[p][1].body.success = Bool(TRUE)
               /\ Get(sent'[p][1].body.data, P("rate")) = Num(Milli)
               /\ Get(sent'[p][1].body.data, P("result")) = parseFloat(r.amount.s)
               /\ sent'[p][1].body.cached = Bool(FALSE)
               /\ cache' = cache]_vars

(* C4: two stock requests whose symbols differ only in letter case use the *)
(* same cache key: after one of them succeeded, the other one, made within *)
(* the TTL, is served from that entry with no upstream call.               *)
C4_StockKeyIgnoresCase ==
    [][\A p, q \in Procs : \A r \in Route("stock") :
          (Succeeded(q) /\ req[q].route = "stock"
              /\ toUpperCase(req[q].symbol.s) = toUpperCase(r.symbol.s)
              /\ StoredBy(q) /\ Fresh(cacheKey(req[q])) /\ Start(p, r))
            => /\ cacheKey(r) = cacheKey(req[q])
               /\ ServedFromCache(p, Envelope(q).data)]_vars

\* a request for "aa" was answered from the entry a request for "AA" stored
C4_Witness ==
    \E p, q \in Procs :
        /\ p # q /\ Succeeded(p) /\ Succeeded(q)
        /\ req[q].symbol.s = AA /\ StoredBy(q)
        /\ req[p].symbol.s = aa /\ calls[p] = 0
        /\ Envelope(p).cached = Bool(TRUE)
        /\ Envelope(p).data = Envelope(q).data

(* C5: for the rate table and the conversion, currency codes are           *)
(* upper-cased before the key is built: the cache never holds two entries  *)
(* whose keys differ only in letter case.                                  *)
C5_CurrencyKeysIgnoreCase ==
    \A k1, k2 \in DOMAIN cache :
        (k1[1] \in {"exchange_", "convert_"} /\ toUpperCase(k1) = toUpperCase(k2)) => k1 = k2

(* C6: an entry stored at time T (TTL: the fixed 300 s) is returned by     *)
(* every lookup before T + 300 and is absent for every lookup after        *)
(* T + 300; the first request after the expiry calls upstream again, and   *)
(* an answer built from an upstream call has cached=false.                 *)
C6_Expiry ==
    /\ [](\A k \in DOMAIN cache :
            /\ cache[k].t = cache[k].at + stdTTL
            /\ now < cache[k].at + stdTTL => CacheGet(cache, k, now) = cache[k].v
            /\ now > cache[k].at + stdTTL => CacheGet(cache, k, now) = Undef)
    /\ [][\A p \in Procs : \A r \in Requests :
            (HasKey(cache, cacheKey(r)) /\ now > cache[cacheKey(r)].at + stdTTL /\ Start(p, r))
              => (pc'[p] = "awaiting" /\ calls'[p] = 1)]_vars
    /\ [][\A p \in Procs :
            (pc[p] = "awaiting" /\ Succeeded(p)') => Envelope(p)'.cached = Bool(FALSE)]_vars

\* a request found the entry of its key expired and is waiting for upstream
C6_Witness ==
    \E p \in Procs :
        /\ pc[p] = "awaiting" /\ calls[p] = 1
        /\ HasKey(cache, cacheKey(req[p]))
        /\ now > cache[cacheKey(req[p])].at + stdTTL

(* C7: an invocation that answers success=false has written no cache       *)
(* entry: the cache after it equals the cache before it.                   *)
C7_FailureWritesNoCache ==
    [][\A p \in Procs :
          (pc[p] = "awaiting" /\ Failed(p)') => cache' = cache]_vars

\* the data is a rate table, of either provider
IsRateTable(d) ==
    d.ty = "object" /\ (P("rates") \in DOMAIN d.f \/ P("conversion_rates") \in DOMAIN d.f)

(* C8: the data of a success envelope has the same field names with and    *)
(* without the paid-provider credential: a rate table is { base, rates },  *)
(* a conversion is { from, to, amount, rate, result }.                     *)
C8_SameFieldNames ==
    \A p \in Procs :
        Succeeded(p) =>
            /\ (req[p].route = "exchange" /\ IsRateTable(Envelope(p).data))
                  => DOMAIN Envelope(p).data.f = {P("base"), P("rates")}
            /\ req[p].route = "convert"
                  => DOMAIN Envelope(p).data.f =
                        {P("from"), P("to"), P("amount"), P("rate"), P("result")}

(* C9: every invocation, whatever upstream did, ends with exactly one      *)
(* response; a failed upstream call is answered success=false with an      *)
(* error, and no exception leaves a route handler.                         *)
C9_OneEnvelope ==
    \A p \in Procs :
        /\ ~escaped[p]
        /\ pc[p] = "awaiting" => Len(sent[p]) = 0
        /\ pc[p] = "done" =>
              /\ Len(sent[p]) = 1
              /\ got[p].kind \in {"http", "transport"} =>
                    (Envelope(p).success = Bool(FALSE) /\ "error" \in DOMAIN Envelope(p))

\* a conversion whose upstream answer could not be read ended in the catch block
C9_Witness ==
    \E p \in Procs :
        /\ Replied(p) /\ req[p].route = "convert"
        /\ got[p].kind = "ok" /\ ~CanRead(got[p].data)
        /\ sent[p][1].status = 500 /\ Envelope(p).success = Bool(FALSE)

C11_ConcurrentMisses ==
    /\ [][\A p, q \in Procs : \A r \in Requests :
            (p # q /\ pc[q] = "awaiting" /\ cacheKey(req[q]) = cacheKey(r)
                /\ ~HasKey(cache, cacheKey(r)) /\ Start(p, r))
              => (pc'[p] = "awaiting" /\ calls'[p] = 1
                  /\ pc'[q] = "awaiting" /\ calls'[q] = 1)]_vars
    /\ [][\A p \in Procs :
            (pc[p] = "awaiting" /\ pc'[p] = "done" /\ got'[p].kind = "ok")
              => LET k == cacheKey(req[p]) IN
                 /\ DOMAIN cache' = DOMAIN cache \cup {k}
                 /\ cache'[k] = [v |-> got'[p].data, t |-> now + stdTTL, at |-> now]
                 /\ \A x \in DOMAIN cache \ {k} : cache'[x] = cache[x]]_vars

\* two overlapping requests for one key both went upstream, got different
\* answers, and the cache holds the answer of one of them
C11_Witness ==
    \E p, q \in Procs :
        /\ p # q /\ pc[p] = "done" /\ pc[q] = "done"
        /\ calls[p] = 1 /\ calls[q] = 1
        /\ got[p].kind = "ok" /\ got[q].kind = "ok" /\ got[p].data # got[q].data
        /\ cacheKey(req[p]) = cacheKey(req[q])
        /\ cache[cacheKey(req[q])].v = got[q].data

\* error.response?.data?.message || error.message of a failed upstream call
UpstreamMessage(o) ==
    IF o.kind = "http" THEN Or(Get(o.data, P("message")), o.message) ELSE o.message

(* C12: an error envelope is classified by the kind of failure: 404 only   *)
(* when the upstream answer was delivered (and reports the entity absent); *)
(* when the upstream call failed at transport level or with a non-success  *)
(* status, the upstream status, or 500 without one, and the envelope       *)
(* carries the upstream error's message.                                   *)
C12_ErrorClassification ==
    \A p \in Procs :
        Failed(p) =>
            /\ sent[p][1].status = 404 => got[p].kind = "ok"
            /\ got[p].kind = "http" => sent[p][1].status = got[p].status
            /\ got[p].kind = "transport" => sent[p][1].status = 500
            /\ got[p].kind \in {"http", "transport"}
                  => Envelope(p).error = UpstreamMessage(got[p])

IsNumber(x) == x.ty = "number"

(* C13: in every success envelope, built from upstream or from the cache,  *)
(* the stock's price, change, changePercent and volume and the             *)
(* conversion's amount, rate and result are numbers, never the provider's  *)
(* strings.                                                                *)
C13_NumericFields ==
    \A p \in Procs :
        Succeeded(p) =>
            /\ req[p].route = "stock" =>
                  \A n \in {"price", "change", "changePercent", "volume"} :
                      IsNumber(Get(Envelope(p).data, P(n)))
            /\ req[p].route = "convert" =>
                  \A n \in {"amount", "rate", "result"} :
                      IsNumber(Get(Envelope(p).data, P(n)))

(* C14: two economic requests that resolve to the same provider series (a  *)
(* friendly name and the series identifier it maps to) use the same cache  *)
(* key: after one of them succeeded, the other one, made within the TTL,   *)
(* is served from that entry with no upstream call.                        *)
C14_SameSeriesSameKey ==
    [][\A p, q \in Procs : \A r \in Route("economic") :
          (Succeeded(q) /\ req[q].route = "economic"
              /\ functionName(req[q]) = functionName(r)
              /\ StoredBy(q) /\ Fresh(cacheKey(req[q])) /\ Start(p, r))
            => /\ cacheKey(r) = cacheKey(req[q])
               /\ ServedFromCache(p, Envelope(q).data)]_vars

(* C15: an invocation issues at most one upstream call and never retries:  *)
(* exactly one when its cache lookup misses, whether that call succeeds or *)
(* fails, and none when it hits; a success envelope has cached = true if   *)
(* and only if the invocation issued no upstream call.                     *)
C15_OneUpstreamCall ==
    [][\A p \in Procs :
          /\ \A r \in Requests :
                Start(p, r) =>
                    IF CacheHit(CacheGet(cache, cacheKey(r), now))
                    THEN calls'[p] = 0 /\ pc'[p] = "done"
                    ELSE calls'[p] = 1 /\ pc'[p] = "awaiting"
          /\ pc[p] = "awaiting" =>
                /\ calls'[p] = 1
                /\ pc'[p] \in {"awaiting", "done"}
                /\ pc'[p] = "done" => got'[p].kind \in {"ok", "http", "transport"}
          /\ (pc'[p] = "done" /\ Len(sent'[p]) = 1
                  /\ sent'[p][1].body.success = Bool(TRUE))
                => (sent'[p][1].body.cached = Bool(TRUE) <=> calls'[p] = 0)]_vars

\* the second request was answered from the cache, with cached = true and no
\* upstream call
C15_Witness ==
    \E p \in Procs :
        /\ Succeeded(p) /\ calls[p] = 0 /\ got[p] = NoOutcome
        /\ Envelope(p).cached = Bool(TRUE)
        /\ nreq = 2

(* C16: a cache hit leaves the store unchanged: serving from the cache     *)
(* neither rewrites the entry nor extends its expiry, so an entry stored   *)
(* at T is gone for every lookup after T + TTL however many hits happened  *)
(* in between.                                                             *)
C16_HitLeavesCache ==
    [][\A p \in Procs : \A r \in Requests :
          (Start(p, r) /\ CacheHit(CacheGet(cache, cacheKey(r), now)))
            => /\ cache' = cache
               /\ cache'[cacheKey(r)].t = cache[cacheKey(r)].at + stdTTL
               /\ \A t \in 0..((MaxTicks + 1) * TickStep) :
                     t > cache[cacheKey(r)].at + stdTTL
                       => CacheGet(cache', cacheKey(r), t) = Undef]_vars

\* an entry stored at 0 was hit later and still expires at 0 + TTL
C16_Witness ==
    \E p \in Procs :
        /\ Succeeded(p) /\ calls[p] = 0 /\ Envelope(p).cached = Bool(TRUE)
        /\ HasKey(cache, cacheKey(req[p]))
        /\ cache[cacheKey(req[p])].at = 0 /\ now > 0
        /\ cache[cacheKey(req[p])].t = stdTTL

(* C17: the conversion's cache key depends on the pair (from, to) only:    *)
(* after a successful conversion of (from, to, a1), a conversion of        *)
(* (from, to, a2) within the TTL issues no upstream call, returns          *)
(* cached = true, and its result is the cached rate times a2.              *)
C17_ConvertKeyIgnoresAmount ==
    [][\A p, q \in Procs : \A r \in Route("convert") :
          (Succeeded(q) /\ req[q].route = "convert"
              /\ req[q].from = r.from /\ req[q].to = r.to
              /\ StoredBy(q) /\ Fresh(cacheKey(req[q])) /\ Start(p, r))
            => LET rate == Get(Envelope(q).data, P("rate")) IN
               /\ cacheKey(r) = cacheKey(req[q])
               /\ pc'[p] = "done" /\ calls'[p] = 0 /\ Len(sent'[p]) = 1
               /\ cache' = cache
               /\ sent'[p][1].body.success = Bool(TRUE)
               /\ sent'[p][1].body.cached = Bool(TRUE)
               /\ Get(sent'[p][1].body.data, P("rate")) = rate
               /\ Get(sent'[p][1].body.data, P("amount")) = parseFloat(r.amount.s)
               /\ Get(sent'[p][1].body.data, P("result"))
                     = Fixed2(Times(parseFloat(r.amount.s), rate))]_vars

\* 7 was converted at the fetched rate 0.855, then 3 at the same, cached, rate:
\* 2.57 and not 5.99
C17_Witness ==
    \E p, q \in Procs :
        /\ p # q /\ Succeeded(p) /\ Succeeded(q) /\ StoredBy(q)
        /\ req[q].route = "convert" /\ req[q].amount.s = <<"7">>
        /\ req[p].route = "convert" /\ req[p].amount.s = <<"3">>
        /\ req[p].from = req[q].from /\ req[p].to = req[q].to
        /\ calls[p] = 0 /\ Envelope(p).cached = Bool(TRUE)
        /\ Get(Envelope(q).data, P("rate")) = Num(855)
        /\ Get(Envelope(q).data, P("result")) = Num(5990)
        /\ Get(Envelope(p).data, P("rate")) = Num(855)
        /\ Get(Envelope(p).data, P("result")) = Num(2570)

\* the refresh runs that have not reached their hideLoading
Refreshing == {k.id : k \in {x \in tasks : x.kind \in {"widgets", "quote"}}}

(* C18: the client's list of tracked stocks never holds two entries with   *)
(* the same symbol, whatever the interleaving of addStock, the default     *)
(* loads, removeStock and refreshAllData.                                  *)
C18_NoDuplicateSymbol ==
    \A i, j \in DOMAIN stockData :
        (i # j /\ ~IsHole(stockData[i]) /\ ~IsHole(stockData[j]))
          => stockData[i].symbol # stockData[j].symbol

(* C19: a refresh replaces a tracked stock only with the refreshed quote   *)
(* of the same symbol, and a stock removed while the refresh is in flight  *)
(* stays removed: a refresh's write changes neither the length of the list *)
(* nor the symbol at any index.                                            *)
C19_RefreshKeepsSymbols ==
    [][\A k \in tasks :
          (k.kind = "quote" /\ tasks' = tasks \ {k})
            => /\ Len(stockData') = Len(stockData)
               /\ \A j \in DOMAIN stockData :
                     /\ IsHole(stockData'[j]) = IsHole(stockData[j])
                     /\ ~IsHole(stockData[j])
                           => stockData'[j].symbol = stockData[j].symbol]_vars

(* C20: at most one refreshAllData run is in progress at any time, and     *)
(* isLoading is true whenever a refresh, a conversion or an add-stock      *)
(* request is in flight.                                                   *)
C20_OneRefreshLoadingShown ==
    /\ Cardinality(Refreshing) <= 1
    /\ (\E k \in tasks : k.kind \in {"add", "convert", "widgets", "quote"}) => isLoading

====
